---- MODULE Spec2Model ----
(***************************************************************************)
(* Session / emotion-observation store of the facial emotion recognition   *)
(* backend: the sessions and emotions tables (schema.sql), the Database    *)
(* helpers (database.js) and the route handlers of routes/sessions.js and  *)
(* routes/emotions.js.  Every handler is an async function: it runs up to  *)
(* its next `await database...` in one step, and handlers of different     *)
(* requests interleave at these awaits.                                    *)
(***************************************************************************)
EXTENDS Integers, Sequences, FiniteSets, TLC

\* ---------------------------------------------------------------- bounds
MaxSessions == 1
MaxEmotions == 2
MaxRequests == 2
MaxTime == 2
MaxUsers == 2

\* startDetection calls in flight at once.
MaxStarts == 2

\* detectEmotions calls pending at once (awaiting or scheduled).
MaxLoops == 2

\* Entries of emotionHistory.
MaxHistory == 2

\* ------------------------------------------------------- SQL NULL values
\* A nullable column or an absent JSON field is <<>>, a value v is <<v>>.
NULL == <<>>

Some(v) == <<v>>

\* ------------------------------------------------------ input alphabets
Requests == 1..MaxRequests

\* Session ids a client names: those the store can assign and one it never
\* assigns.
SessionIds == 1..(MaxSessions + 1)

EmotionIds == 1..MaxEmotions

Times == 1..MaxTime

\* emotionType values a client sends: two labels of the enum, one outside.
EmotionTypeInputs == {"happy", "sad", "bored"}

\* confidenceScore values a client sends, in hundredths (0.80, 1.50).
ConfidenceInputs == {80, 150}

\* sessionName values a client sends ("ab" is shorter than min(3)).
SessionNameInputs == {"ab", "Demo"}

\* Optional fields of the PUT /:id/end body; NULL is an absent field.
EndTimeInputs == {NULL} \cup {Some(t) : t \in Times}

DurationInputs == {NULL, Some(5)}

TotalDetectionsInputs == {NULL, Some(0), Some(3)}

AccuracyInputs == {NULL, Some(90)}

\* confidenceScore values of recorded observations whose summary is read
\* (0.80, 0.92).
SummaryConfidenceInputs == {80, 92}

\* sessionName values a client sends to PUT /api/sessions/:id.
UpdateNameInputs == {"ab", "Renamed"}

\* Bodies a client sends to POST /api/auth/register and /login: "al" is
\* shorter than min(3), "nomail" is no e-mail address, "pw" is shorter
\* than min(6).  Every username here is alphanumeric.
UsernameInputs == {"al", "alice", "bob"}

EmailInputs == {"nomail", "a@x.io", "b@x.io"}

PasswordInputs == {"pw", "secret1", "hunter2"}

\* User ids a token names: those the store can assign and one it never
\* assigns.
UserIds == 1..(MaxUsers + 1)

\* What jwt.verify makes of a token: valid (signed with JWT_SECRET, not
\* expired, carrying userId), expired, signed with another key, or not a
\* JWT at all.
Token(kind, userId) == [kind |-> kind, userId |-> userId]

\* Authorization headers a client sends to POST /api/auth/verify; NULL is
\* a header that is absent or has no second word.
TokenInputs ==
    {NULL, Some(Token("malformed", 0)), Some(Token("wrongkey", 1)),
     Some(Token("expired", 1))}
      \cup {Some(Token("valid", u)) : u \in UserIds}

\* limit and offset query parameters a client sends to a listing route;
\* NULL is an absent parameter.
LimitInputs == {NULL, Some(-1), Some(0), Some(5), Some(100), Some(101)}

OffsetInputs == {NULL, Some(-3), Some(0), Some(2)}

\* The four faceapi.nets loadModels loads.
Nets == {"tinyFaceDetector", "faceLandmark68Net", "faceExpressionNet",
         "ageGenderNet"}

\* Indexes into modelUrls: two CDNs, then './models/'.
ModelUrls == 1..3

\* The nets whose loadFromUri succeeds in one attempt.
LoadedInputs == {{}, {"tinyFaceDetector", "faceLandmark68Net"}, Nets}

\* Concurrent startDetection calls.
StartCalls == 1..MaxStarts

\* ------------------------------------------------------------ validation
EmotionTypes == {"happy", "sad", "angry", "surprised", "fearful", "disgusted", "neutral"}

\* emotionSchema without the .max(1) of confidenceScore.
emotionSchemaLax(sessionId, emotionType, confidenceScore) ==
    /\ sessionId \in Int
    /\ emotionType \in EmotionTypes
    /\ confidenceScore >= 0

\* Joi emotionSchema: sessionId integer, emotionType in the enum,
\* confidenceScore in [0,1] (hundredths: 0..100).
emotionSchema(sessionId, emotionType, confidenceScore) ==
    /\ sessionId \in Int
    /\ emotionType \in EmotionTypes
    /\ confidenceScore >= 0
    /\ confidenceScore <= 100

\* Joi sessionSchema: sessionName is a string of 3..100 characters.
sessionSchema(sessionName) ==
    /\ Len(sessionName) >= 3
    /\ Len(sessionName) <= 100

\* Joi.string().email() on the e-mail inputs.
IsEmail(email) == email \in {"a@x.io", "b@x.io"}

\* Joi registerSchema: username alphanum 3..30, email, password min(6).
registerSchema(username, email, password) ==
    /\ Len(username) >= 3
    /\ Len(username) <= 30
    /\ IsEmail(email)
    /\ Len(password) >= 6

\* Key of the first constraint of registerSchema the body violates.
registerSchemaError(username, email, password) ==
    IF Len(username) < 3 \/ Len(username) > 30 THEN "username"
    ELSE IF ~IsEmail(email) THEN "email"
    ELSE "password"

\* Joi loginSchema: email, password a non-empty string.
loginSchema(email, password) ==
    /\ IsEmail(email)
    /\ Len(password) >= 1

\* Joi querySchema: limit an integer in 1..100, offset an integer >= 0,
\* both optional.
querySchema(limit, offset) ==
    /\ limit # NULL => (limit[1] >= 1 /\ limit[1] <= 100)
    /\ offset # NULL => offset[1] >= 0

\* Key of the first constraint of querySchema the query violates.
querySchemaError(limit, offset) ==
    IF limit # NULL /\ (limit[1] < 1 \/ limit[1] > 100) THEN "limit" ELSE "offset"

\* parseInt(x) || d: d for an absent parameter (NaN) and for 0.
ParseIntOr(x, d) == IF x = NULL \/ x[1] = 0 THEN d ELSE x[1]

\* Math.min
Min(a, b) == IF a < b THEN a ELSE b

\* ----------------------------------------------------------------- state
VARIABLES
    sessions,         \* table sessions: id -> row
    emotions,         \* table emotions: id -> row
    sqlite_sequence,  \* AUTOINCREMENT high-water marks of the two tables
    req,              \* per request slot: position and locals of its handler
    response,         \* the response sent by the last step (NoResponse: none)
    users,            \* table users: id -> row
    auth,             \* per request slot: position and locals of an auth handler
    page,             \* LIMIT and OFFSET bound by the last listing query
    app               \* the EmotionApp object of the page and its pending callbacks

vars ==
    <<sessions, emotions, sqlite_sequence, req, response, users, auth, page,
      app>>

\* Everything but the front end.
server == <<sessions, emotions, sqlite_sequence, req, response, users, auth, page>>

db == <<sessions, emotions, sqlite_sequence>>

\* A request slot with no handler running.
Idle ==
    [pc |-> "idle", sessionId |-> 0, emotionType |-> "",
     confidenceScore |-> 0, emotionId |-> 0, session_id |-> 0, lastID |-> 0]

\* res.status(status).json(...) of a route; id is the :id / sessionId the
\* request named, error the key of the first violated constraint of a 400.
Response(route, id, status, error) ==
    [route |-> route, id |-> id, status |-> status, error |-> error]

NoResponse == Response("", 0, 0, "")

\* The LIMIT ? OFFSET ? parameters a listing route binds.
Page(route, limit, offset) == [route |-> route, limit |-> limit, offset |-> offset]

NoPage == Page("", 0, 0)

\* A startDetection call that is not running.
StartIdle == [pc |-> "idle", modelUrl |-> 0]

\* new EmotionApp(): the fields the constructor sets, the two buttons (the
\* stop button starts disabled), the overlay, the weights each net holds
\* (the sources it was loaded from), and what is pending: startDetection
\* calls, the loadedmetadata event of the video, detectEmotions calls
\* awaiting detectAllFaces, and requestAnimationFrame callbacks.
EmotionApp ==
    [isDetecting      |-> FALSE,
     stream           |-> FALSE,
     modelsLoaded     |-> FALSE,
     emotionHistory   |-> 0,
     startBtnDisabled |-> FALSE,
     stopBtnDisabled  |-> TRUE,
     overlay          |-> "clear",
     weights          |-> [n \in Nets |-> {}],
     calls            |-> [c \in StartCalls |-> StartIdle],
     onloadedmetadata |-> FALSE,
     awaiting         |-> 0,
     frames           |-> 0]

\* A request slot with no handler of routes/auth.js running.
AuthIdle ==
    [pc |-> "idle", username |-> "", email |-> "", password |-> "",
     passwordHash |-> NULL, userId |-> 0]

Init ==
    /\ sessions = << >>
    /\ emotions = << >>
    /\ sqlite_sequence = [sessions |-> 0, emotions |-> 0, users |-> 0]
    /\ req = [r \in Requests |-> Idle]
    /\ response = NoResponse
    /\ users = << >>
    /\ auth = [r \in Requests |-> AuthIdle]
    /\ page = NoPage
    /\ app = EmotionApp

\* Requests whose handler is at one of the given positions.
At(pcs) == {r \in Requests : req[r].pc \in pcs}

\* f with key k added or overwritten.
Put(f, k, v) == [x \in DOMAIN f \cup {k} |-> IF x = k THEN v ELSE f[x]]

\* f without key k.
Drop(f, k) == [x \in DOMAIN f \ {k} |-> f[x]]

\* ------------------------------------------------ POST /api/sessions
\* INSERT INTO sessions: the unbound user_id stays NULL, start_time is
\* CURRENT_TIMESTAMP, the other columns take their schema defaults.
NewSession(sessionName, start_time) ==
    [session_name |-> sessionName, start_time |-> start_time,
     end_time |-> NULL, duration_seconds |-> NULL,
     total_detections |-> Some(0), accuracy_score |-> NULL,
     is_completed |-> 0]

\* The whole handler (one statement): 400 on an invalid body, 500 when
\* the INSERT is rejected (err), else the row and 201.  now is the clock
\* read by CURRENT_TIMESTAMP.  The guard caps the AUTOINCREMENT counter.
PostSession(sessionName, now, err) ==
    /\ sqlite_sequence.sessions < MaxSessions
    /\ LET id == sqlite_sequence.sessions + 1 IN
       IF ~sessionSchema(sessionName)
         THEN /\ response' = Response("POST /api/sessions", 0, 400, "sessionName")
              /\ UNCHANGED <<sessions, sqlite_sequence>>
         ELSE IF err
           THEN /\ response' = Response("POST /api/sessions", 0, 500, "")
                /\ UNCHANGED <<sessions, sqlite_sequence>>
           ELSE /\ sessions' = Put(sessions, id, NewSession(sessionName, Some(now)))
                /\ sqlite_sequence' = [sqlite_sequence EXCEPT !.sessions = id]
                /\ response' = Response("POST /api/sessions", id, 201, "")
    /\ UNCHANGED <<emotions, req>>

\* ------------------------------------------------ POST /api/emotions
\* Key of the first constraint of emotionSchema the body violates.
emotionSchemaError(sessionId, emotionType, confidenceScore) ==
    IF sessionId \notin Int THEN "sessionId"
    ELSE IF emotionType \notin EmotionTypes THEN "emotionType"
    ELSE "confidenceScore"

\* Handler up to the `await database.get('SELECT id FROM sessions ...')`.
PostEmotion(r, sessionId, emotionType, confidenceScore) ==
    /\ req[r].pc = "idle"
    /\ sqlite_sequence.emotions
         + Cardinality(At({"verifySession", "createEmotion"})) < MaxEmotions
    /\ IF emotionSchema(sessionId, emotionType, confidenceScore)
         THEN /\ req' = [req EXCEPT ![r] = [Idle EXCEPT
                            !.pc = "verifySession", !.sessionId = sessionId,
                            !.emotionType = emotionType,
                            !.confidenceScore = confidenceScore]]
              /\ response' = NoResponse
         ELSE /\ response' = Response("POST /api/emotions", sessionId, 400,
                    emotionSchemaError(sessionId, emotionType, confidenceScore))
              /\ UNCHANGED req
    /\ UNCHANGED db

\* The handler's catch: 500, the slot is free again.
Rejected(r, route, id) ==
    /\ req' = [req EXCEPT ![r] = Idle]
    /\ response' = Response(route, id, 500, "")
    /\ UNCHANGED db

\* verifySession without the `if (!session)` return.
verifySessionSkipped(r, err) ==
    /\ req[r].pc = "verifySession"
    /\ IF err THEN Rejected(r, "POST /api/emotions", req[r].sessionId)
       ELSE /\ req' = [req EXCEPT ![r].pc = "createEmotion"]
            /\ response' = NoResponse
            /\ UNCHANGED db

\* The SELECT resolves: 404 when no row, else on to createEmotion.
verifySession(r, err) ==
    /\ req[r].pc = "verifySession"
    /\ IF err THEN Rejected(r, "POST /api/emotions", req[r].sessionId)
       ELSE /\ IF req[r].sessionId \in DOMAIN sessions
                 THEN /\ req' = [req EXCEPT ![r].pc = "createEmotion"]
                      /\ response' = NoResponse
                 ELSE /\ req' = [req EXCEPT ![r] = Idle]
                      /\ response' = Response("POST /api/emotions",
                                              req[r].sessionId, 404, "")
            /\ UNCHANGED db

\* createEmotion resolving before its row can be read.
createEmotionDeferred(r, err) ==
    /\ req[r].pc = "createEmotion"
    /\ IF err THEN Rejected(r, "POST /api/emotions", req[r].sessionId)
       ELSE LET id == sqlite_sequence.emotions + 1 IN
            /\ sqlite_sequence' = [sqlite_sequence EXCEPT !.emotions = id]
            /\ req' = [req EXCEPT ![r].pc = "incrementDetections",
                                  ![r].lastID = id]
            /\ response' = NoResponse
            /\ UNCHANGED <<sessions, emotions>>

\* INSERT INTO emotions resolves with lastID; the handler goes on to the
\* UPDATE of the counter.  No foreign key is enforced (the connection
\* never turns foreign_keys on), so the insert does not look at sessions.
createEmotion(r, err) ==
    /\ req[r].pc = "createEmotion"
    /\ IF err THEN Rejected(r, "POST /api/emotions", req[r].sessionId)
       ELSE LET id == sqlite_sequence.emotions + 1 IN
            /\ emotions' = Put(emotions, id,
                               [session_id |-> req[r].sessionId,
                                emotion_type |-> req[r].emotionType,
                                confidence_score |-> req[r].confidenceScore])
            /\ sqlite_sequence' = [sqlite_sequence EXCEPT !.emotions = id]
            /\ req' = [req EXCEPT ![r].pc = "incrementDetections",
                                  ![r].lastID = id]
            /\ response' = NoResponse
            /\ UNCHANGED sessions

\* SQL `total_detections + d`: NULL stays NULL.
SqlAdd(x, d) == IF x = NULL THEN NULL ELSE Some(x[1] + d)

\* UPDATE sessions SET total_detections = total_detections + d WHERE id = ?
\* (no row with that id: nothing changes).
AddDetections(id, d) ==
    IF id \in DOMAIN sessions
      THEN [sessions EXCEPT ![id].total_detections = SqlAdd(@, d)]
      ELSE sessions

\* incrementDetections writing `total_detections = 1`.
incrementDetectionsOverwrite(r, err) ==
    /\ req[r].pc = "incrementDetections"
    /\ IF err THEN Rejected(r, "POST /api/emotions", req[r].sessionId)
       ELSE /\ sessions' = [sessions EXCEPT
                              ![req[r].sessionId].total_detections = Some(1)]
            /\ req' = [req EXCEPT ![r] = Idle]
            /\ response' = Response("POST /api/emotions", req[r].sessionId, 201, "")
            /\ UNCHANGED <<emotions, sqlite_sequence>>

incrementDetections(r, err) ==
    /\ req[r].pc = "incrementDetections"
    /\ IF err THEN Rejected(r, "POST /api/emotions", req[r].sessionId)
       ELSE /\ sessions' = AddDetections(req[r].sessionId, 1)
            /\ req' = [req EXCEPT ![r] = Idle]
            /\ response' = Response("POST /api/emotions", req[r].sessionId, 201, "")
            /\ UNCHANGED <<emotions, sqlite_sequence>>

\* ------------------------------------------ DELETE /api/emotions/:id
\* Handler up to the `await database.get('SELECT id, session_id ...')`.
DeleteEmotion(r, emotionId) ==
    /\ req[r].pc = "idle"
    /\ req' = [req EXCEPT ![r] = [Idle EXCEPT
                   !.pc = "checkEmotion", !.emotionId = emotionId]]
    /\ response' = NoResponse
    /\ UNCHANGED db

\* checkEmotion without the `if (!emotion)` return.
checkEmotionSkipped(r, err) ==
    /\ req[r].pc = "checkEmotion"
    /\ IF err THEN Rejected(r, "DELETE /api/emotions/:id", req[r].emotionId)
       ELSE /\ req' = [req EXCEPT ![r].pc = "deleteEmotionRow"]
            /\ response' = NoResponse
            /\ UNCHANGED db

\* SELECT id, session_id FROM emotions WHERE id = ? resolves.
checkEmotion(r, err) ==
    /\ req[r].pc = "checkEmotion"
    /\ IF err THEN Rejected(r, "DELETE /api/emotions/:id", req[r].emotionId)
       ELSE /\ IF req[r].emotionId \in DOMAIN emotions
                 THEN /\ req' = [req EXCEPT ![r].pc = "deleteEmotionRow",
                            ![r].session_id = emotions[req[r].emotionId].session_id]
                      /\ response' = NoResponse
                 ELSE /\ req' = [req EXCEPT ![r] = Idle]
                      /\ response' = Response("DELETE /api/emotions/:id",
                                              req[r].emotionId, 404, "")
            /\ UNCHANGED db

\* DELETE FROM emotions WHERE id = ? resolves (also when no row is left).
deleteEmotionRow(r, err) ==
    /\ req[r].pc = "deleteEmotionRow"
    /\ IF err THEN Rejected(r, "DELETE /api/emotions/:id", req[r].emotionId)
       ELSE /\ emotions' = Drop(emotions, req[r].emotionId)
            /\ req' = [req EXCEPT ![r].pc = "decrementDetections"]
            /\ response' = NoResponse
            /\ UNCHANGED <<sessions, sqlite_sequence>>

decrementDetections(r, err) ==
    /\ req[r].pc = "decrementDetections"
    /\ IF err THEN Rejected(r, "DELETE /api/emotions/:id", req[r].emotionId)
       ELSE /\ sessions' = AddDetections(req[r].session_id, -1)
            /\ req' = [req EXCEPT ![r] = Idle]
            /\ response' = Response("DELETE /api/emotions/:id",
                                    req[r].emotionId, 200, "")
            /\ UNCHANGED <<emotions, sqlite_sequence>>

\* ------------------------------------------ PUT /api/sessions/:id/end
\* TRIGGER update_sessions_duration (AFTER UPDATE, for the row updated).
update_sessions_duration(old, new) ==
    IF new.end_time # NULL /\ old.end_time = NULL
      THEN [new EXCEPT !.duration_seconds =
                           Some(new.end_time[1] - new.start_time[1])]
      ELSE new

\* EndedRow leaving total_detections and accuracy_score as stored.
EndedRowKeepingCounters(row, endTime, duration, totalDetections, accuracy) ==
    update_sessions_duration(row,
        [row EXCEPT !.end_time = endTime,
                    !.duration_seconds = duration])

\* UPDATE sessions SET end_time = ?, duration_seconds = ?,
\* total_detections = ?, accuracy_score = ? WHERE id = ? on one row, an
\* absent body field binding NULL, followed by the trigger.
EndedRow(row, endTime, duration, totalDetections, accuracy) ==
    update_sessions_duration(row,
        [row EXCEPT !.end_time = endTime,
                    !.duration_seconds = duration,
                    !.total_detections = totalDetections,
                    !.accuracy_score = accuracy])

\* The whole handler (one statement): 500 when the UPDATE is rejected,
\* else 200; the handler does not look at result.changes.
PutSessionEnd(id, endTime, duration, totalDetections, accuracy, err) ==
    /\ IF err
         THEN /\ response' = Response("PUT /api/sessions/:id/end", id, 500, "")
              /\ UNCHANGED sessions
         ELSE /\ sessions' =
                   IF id \in DOMAIN sessions
                     THEN [sessions EXCEPT ![id] =
                             EndedRow(@, endTime, duration, totalDetections, accuracy)]
                     ELSE sessions
              /\ response' = Response("PUT /api/sessions/:id/end", id, 200, "")
    /\ UNCHANGED <<emotions, sqlite_sequence, req>>

\* ---------------------------------------------- PUT /api/sessions/:id
\* The whole handler (one statement): 400 on an invalid body, 500 when
\* the UPDATE is rejected, else 200 whether or not a row was updated.
\* UPDATE sessions SET session_name = ?, device_info = ?, ... WHERE id = ?
PutSession(id, sessionName, err) ==
    /\ IF ~sessionSchema(sessionName)
         THEN /\ response' = Response("PUT /api/sessions/:id", id, 400, "sessionName")
              /\ UNCHANGED sessions
         ELSE IF err
           THEN /\ response' = Response("PUT /api/sessions/:id", id, 500, "")
                /\ UNCHANGED sessions
           ELSE /\ sessions' =
                     IF id \in DOMAIN sessions
                       THEN [sessions EXCEPT ![id].session_name = sessionName]
                       ELSE sessions
                /\ response' = Response("PUT /api/sessions/:id", id, 200, "")
    /\ UNCHANGED <<emotions, sqlite_sequence, req>>

\* ---------------------------------------------- GET /api/sessions/:id
\* The whole handler (one statement): SELECT * FROM sessions WHERE id = ?;
\* 404 when there is no row and also, from the catch, when the SELECT is
\* rejected; else 200 with the row.
GetSession(id, err) ==
    /\ response' =
         IF err \/ id \notin DOMAIN sessions
           THEN Response("GET /api/sessions/:id", id, 404, "Session not found")
           ELSE Response("GET /api/sessions/:id", id, 200, "")
    /\ UNCHANGED <<sessions, emotions, sqlite_sequence, req>>

\* ---------------------------------------------------- listing routes
\* GET /api/emotions/session/:sessionId: 400 on an invalid query, 404 for
\* a missing session, else getEmotionsBySession with limit and offset
\* parsed from the raw query.  Both statements are SELECTs.
GetEmotionsBySession(sessionId, limit, offset, err) ==
    /\ IF ~querySchema(limit, offset)
         THEN /\ response' = Response("GET /api/emotions/session/:sessionId",
                      sessionId, 400, querySchemaError(limit, offset))
              /\ UNCHANGED page
         ELSE IF err
           THEN /\ response' = Response("GET /api/emotions/session/:sessionId",
                        sessionId, 500, "")
                /\ UNCHANGED page
           ELSE IF sessionId \notin DOMAIN sessions
             THEN /\ response' = Response("GET /api/emotions/session/:sessionId",
                          sessionId, 404, "")
                  /\ UNCHANGED page
             ELSE /\ response' = Response("GET /api/emotions/session/:sessionId",
                          sessionId, 200, "")
                  /\ page' = Page("GET /api/emotions/session/:sessionId",
                                  ParseIntOr(limit, 50), ParseIntOr(offset, 0))
    /\ UNCHANGED <<sessions, emotions, sqlite_sequence, req>>

\* GET /api/emotions/user/:userId: 400 on an invalid query, else one
\* SELECT ... LIMIT ? OFFSET ?.
GetEmotionsByUser(userId, limit, offset, err) ==
    /\ IF ~querySchema(limit, offset)
         THEN /\ response' = Response("GET /api/emotions/user/:userId",
                      userId, 400, querySchemaError(limit, offset))
              /\ UNCHANGED page
         ELSE IF err
           THEN /\ response' = Response("GET /api/emotions/user/:userId",
                        userId, 500, "")
                /\ UNCHANGED page
           ELSE /\ response' = Response("GET /api/emotions/user/:userId",
                        userId, 200, "")
                /\ page' = Page("GET /api/emotions/user/:userId",
                                ParseIntOr(limit, 50), ParseIntOr(offset, 0))
    /\ UNCHANGED <<sessions, emotions, sqlite_sequence, req>>

\* GET /api/sessions/user/:userId: no validation;
\* limit = Math.min(parseInt(limit) || 20, 100), offset = parseInt(offset) || 0.
GetSessionsByUser(userId, limit, offset, err) ==
    /\ IF err
         THEN /\ response' = Response("GET /api/sessions/user/:userId",
                      userId, 500, "")
              /\ UNCHANGED page
         ELSE /\ response' = Response("GET /api/sessions/user/:userId",
                      userId, 200, "")
              /\ page' = Page("GET /api/sessions/user/:userId",
                              Min(ParseIntOr(limit, 20), 100),
                              ParseIntOr(offset, 0))
    /\ UNCHANGED <<sessions, emotions, sqlite_sequence, req>>

\* GET /api/emotions/realtime: limit = Math.min(parseInt(limit) || 20, 100),
\* no OFFSET.
GetRealtime(limit, err) ==
    /\ IF err
         THEN /\ response' = Response("GET /api/emotions/realtime", 0, 500, "")
              /\ UNCHANGED page
         ELSE /\ response' = Response("GET /api/emotions/realtime", 0, 200, "")
              /\ page' = Page("GET /api/emotions/realtime",
                              Min(ParseIntOr(limit, 20), 100), 0)
    /\ UNCHANGED <<sessions, emotions, sqlite_sequence, req>>

\* ------------------------------------------------- EmotionApp (js/app.js)
\* Click on the start button: startDetection up to its first await, which
\* is loadModels' first attempt when the models are not loaded, else
\* getUserMedia.
startDetection(c) ==
    /\ ~app.startBtnDisabled
    /\ app.calls[c].pc = "idle"
    /\ app' = [app EXCEPT !.calls[c] =
                  IF app.modelsLoaded
                    THEN [pc |-> "getUserMedia", modelUrl |-> 0]
                    ELSE [pc |-> "loadModels", modelUrl |-> 1]]

\* One attempt of loadModels settles: the nets in `loaded` got their
\* weights from this url.  All four: modelsLoaded = true and return.
\* Otherwise a network error moves on to the next url, and any other
\* error, or the last url, ends the loop with showDetailedError;
\* loadModels then returns normally and startDetection goes on.
loadModels(c, loaded, network) ==
    /\ app.calls[c].pc = "loadModels"
    /\ LET url == app.calls[c].modelUrl
           w   == [n \in Nets |-> IF n \in loaded THEN app.weights[n] \cup {url}
                                                  ELSE app.weights[n]]
       IN  app' =
             IF loaded = Nets
               THEN [app EXCEPT !.weights = w, !.modelsLoaded = TRUE,
                                !.calls[c] = [pc |-> "getUserMedia", modelUrl |-> 0]]
               ELSE IF network /\ url + 1 \in ModelUrls
                 THEN [app EXCEPT !.weights = w, !.calls[c].modelUrl = url + 1]
                 ELSE [app EXCEPT !.weights = w,
                                  !.calls[c] = [pc |-> "getUserMedia", modelUrl |-> 0]]

\* getUserMedia settles: the stream is stored, made the video's source
\* and onloadedmetadata is set; on rejection an error is shown.
getUserMedia(c, granted) ==
    /\ app.calls[c].pc = "getUserMedia"
    /\ app' = IF granted
                THEN [app EXCEPT !.stream = TRUE, !.onloadedmetadata = TRUE,
                                 !.calls[c] = StartIdle]
                ELSE [app EXCEPT !.calls[c] = StartIdle]

\* The video's loadedmetadata event (delivered while its stream is live):
\* startEmotionDetection sets isDetecting and calls detectEmotions, which
\* runs to its await; the buttons are switched.
onloadedmetadata ==
    /\ app.onloadedmetadata
    /\ app.stream
    /\ app.awaiting + app.frames < MaxLoops
    /\ app' = [app EXCEPT !.onloadedmetadata = FALSE,
                          !.isDetecting = TRUE,
                          !.awaiting = @ + 1,
                          !.startBtnDisabled = TRUE,
                          !.stopBtnDisabled = FALSE]

\* Click on the stop button.
stopDetection ==
    /\ ~app.stopBtnDisabled
    /\ app' = [app EXCEPT !.stream = FALSE,
                          !.isDetecting = FALSE,
                          !.overlay = "clear",
                          !.startBtnDisabled = FALSE,
                          !.stopBtnDisabled = TRUE]

\* detectEmotions after its await: clearRect, with a face the drawing,
\* updateEmotionDisplay and saveEmotionData, then requestAnimationFrame.
\* With a net that holds no weights the detection rejects and the call
\* ends there.
detectAllFaces(faces) ==
    /\ app.awaiting > 0
    /\ faces => app.emotionHistory < MaxHistory
    /\ app' =
         IF \E n \in Nets : app.weights[n] = {}
           THEN [app EXCEPT !.awaiting = @ - 1]
           ELSE [app EXCEPT !.awaiting = @ - 1,
                            !.frames = @ + 1,
                            !.overlay = IF faces THEN "drawn" ELSE "clear",
                            !.emotionHistory = IF faces THEN @ + 1 ELSE @]

\* An animation frame callback: detectEmotions from its entry to the
\* return of `if (!this.isDetecting)` or to its await.
detectEmotions ==
    /\ app.frames > 0
    /\ app' = [app EXCEPT !.frames = @ - 1,
                          !.awaiting = IF app.isDetecting THEN @ + 1 ELSE @]

\* ------------------------------------------- DELETE /api/sessions/:id
\* The whole handler (one statement): DELETE FROM sessions WHERE id = ?.
\* The connection never runs PRAGMA foreign_keys = ON, so the ON DELETE
\* CASCADE of emotions.session_id is not applied: emotions is left as it is.
DeleteSession(id, err) ==
    /\ IF err
         THEN /\ response' = Response("DELETE /api/sessions/:id", id, 500, "")
              /\ UNCHANGED sessions
         ELSE /\ sessions' = Drop(sessions, id)
              /\ response' = Response("DELETE /api/sessions/:id", id, 200, "")
    /\ UNCHANGED <<emotions, sqlite_sequence, req>>

\* ------------------------------- GET /api/emotions/summary/session/:id
\* Ids of the rows of a table of emotions with session_id = sessionId.
EmotionsOf(table, sessionId) ==
    {e \in DOMAIN table : table[e].session_id = sessionId}

RECURSIVE SumConfidence(_, _)
SumConfidence(table, ids) ==
    IF ids = {} THEN 0
    ELSE LET e == CHOOSE x \in ids : TRUE IN
         table[e].confidence_score + SumConfidence(table, ids \ {e})

\* GROUP BY emotion_type: one row per label that has rows; AVG is the
\* exact quotient sum / count, kept as that pair.
SummaryGroups(table, sessionId) ==
    {[emotion_type |-> t,
      count |-> Cardinality({e \in EmotionsOf(table, sessionId) :
                               table[e].emotion_type = t}),
      avg_confidence |->
        <<SumConfidence(table, {e \in EmotionsOf(table, sessionId) :
                                  table[e].emotion_type = t}),
          Cardinality({e \in EmotionsOf(table, sessionId) :
                         table[e].emotion_type = t})>>] :
       t \in {table[e].emotion_type : e \in EmotionsOf(table, sessionId)}}

\* ORDER BY count DESC: every arrangement of the groups with the counts
\* not increasing is a result the query may return.
SummaryOf(table, sessionId) ==
    LET groups == SummaryGroups(table, sessionId)
        n == Cardinality(groups)
    IN {rows \in [1..n -> groups] :
          /\ \A i, j \in 1..n : i # j => rows[i] # rows[j]
          /\ \A i, j \in 1..n : i < j => rows[i].count >= rows[j].count}

getEmotionSummary(sessionId) == SummaryOf(emotions, sessionId)

RECURSIVE SumCounts(_)
SumCounts(rows) ==
    IF rows = << >> THEN 0 ELSE Head(rows).count + SumCounts(Tail(rows))

\* ------------------------------------------- POST /api/auth/register
\* Auth requests whose handler is at one of the given positions.
AuthAt(pcs) == {r \in Requests : auth[r].pc \in pcs}

\* SELECT * FROM users WHERE email = ? AND is_active = 1: the id of the
\* row found, NULL when there is none.
findUserByEmail(email) ==
    LET found == {u \in DOMAIN users :
                    users[u].email = email /\ users[u].is_active = 1}
    IN IF found = {} THEN NULL ELSE Some(CHOOSE u \in found : TRUE)

\* SELECT * FROM users WHERE username = ? AND is_active = 1.
findUserByUsername(username) ==
    LET found == {u \in DOMAIN users :
                    users[u].username = username /\ users[u].is_active = 1}
    IN IF found = {} THEN NULL ELSE Some(CHOOSE u \in found : TRUE)

\* bcrypt: compare(password, hash) holds exactly for the password hashed,
\* whatever the salt.
Hash(password) == Some(<<"bcrypt", password>>)

\* A handler's catch: 500 with the route's message, the slot is free again.
AuthRejected(r, route, message) ==
    /\ auth' = [auth EXCEPT ![r] = AuthIdle]
    /\ response' = Response(route, 0, 500, message)
    /\ UNCHANGED users

\* The UNIQUE constraints of users.username and users.email reject the row.
UniqueViolated(username, email) ==
    \E u \in DOMAIN users :
      users[u].username = username \/ users[u].email = email

\* Handler up to the `await database.findUserByEmail(email)`.  The guard
\* caps the AUTOINCREMENT counter: it counts the running calls whose
\* INSERT can still be accepted.
Register(r, username, email, password) ==
    /\ auth[r].pc = "idle"
    /\ \/ UniqueViolated(username, email)
       \/ sqlite_sequence.users
            + Cardinality({q \in AuthAt({"checkEmail", "checkUsername",
                                         "hashPassword", "createUser"}) :
                             ~UniqueViolated(auth[q].username, auth[q].email)})
              < MaxUsers
    /\ IF registerSchema(username, email, password)
         THEN /\ auth' = [auth EXCEPT ![r] = [AuthIdle EXCEPT
                             !.pc = "checkEmail", !.username = username,
                             !.email = email, !.password = password]]
              /\ response' = NoResponse
         ELSE /\ response' = Response("POST /api/auth/register", 0, 400,
                                      registerSchemaError(username, email, password))
              /\ UNCHANGED auth
    /\ UNCHANGED <<users, sqlite_sequence>>

\* checkEmail reporting a taken e-mail as a taken username.
checkEmailAsUsername(r, err) ==
    /\ auth[r].pc = "checkEmail"
    /\ IF err THEN AuthRejected(r, "POST /api/auth/register", "Registration failed")
       ELSE /\ IF findUserByEmail(auth[r].email) # NULL
                 THEN /\ auth' = [auth EXCEPT ![r] = AuthIdle]
                      /\ response' = Response("POST /api/auth/register", 0, 409,
                                              "Username already taken")
                 ELSE /\ auth' = [auth EXCEPT ![r].pc = "checkUsername"]
                      /\ response' = NoResponse
            /\ UNCHANGED users
    /\ UNCHANGED sqlite_sequence

\* findUserByEmail resolves: 409 when a user has the e-mail, else on to
\* the lookup of the username.
checkEmail(r, err) ==
    /\ auth[r].pc = "checkEmail"
    /\ IF err THEN AuthRejected(r, "POST /api/auth/register", "Registration failed")
       ELSE /\ IF findUserByEmail(auth[r].email) # NULL
                 THEN /\ auth' = [auth EXCEPT ![r] = AuthIdle]
                      /\ response' = Response("POST /api/auth/register", 0, 409,
                                              "User already exists with this email")
                 ELSE /\ auth' = [auth EXCEPT ![r].pc = "checkUsername"]
                      /\ response' = NoResponse
            /\ UNCHANGED users
    /\ UNCHANGED sqlite_sequence

\* findUserByUsername resolves: 409 when a user has the username, else on
\* to bcrypt.hash.
checkUsername(r, err) ==
    /\ auth[r].pc = "checkUsername"
    /\ IF err THEN AuthRejected(r, "POST /api/auth/register", "Registration failed")
       ELSE /\ IF findUserByUsername(auth[r].username) # NULL
                 THEN /\ auth' = [auth EXCEPT ![r] = AuthIdle]
                      /\ response' = Response("POST /api/auth/register", 0, 409,
                                              "Username already taken")
                 ELSE /\ auth' = [auth EXCEPT ![r].pc = "hashPassword"]
                      /\ response' = NoResponse
            /\ UNCHANGED users
    /\ UNCHANGED sqlite_sequence

\* bcrypt.hash resolves; the handler goes on to createUser.
hashPassword(r) ==
    /\ auth[r].pc = "hashPassword"
    /\ auth' = [auth EXCEPT ![r].pc = "createUser",
                            ![r].passwordHash = Hash(auth[r].password)]
    /\ response' = NoResponse
    /\ UNCHANGED <<users, sqlite_sequence>>

\* INSERT INTO users: the row with the schema defaults, now the clock read
\* by CURRENT_TIMESTAMP.
NewUser(username, email, passwordHash, now) ==
    [username |-> username, email |-> email, password_hash |-> passwordHash,
     created_at |-> now, updated_at |-> now, is_active |-> 1,
     last_login |-> NULL]

\* createUser resolves: the INSERT is rejected (err, or a UNIQUE
\* constraint) and the catch answers 500, else the row and 201.
createUser(r, now, err) ==
    /\ auth[r].pc = "createUser"
    /\ IF err \/ UniqueViolated(auth[r].username, auth[r].email)
         THEN /\ AuthRejected(r, "POST /api/auth/register", "Registration failed")
              /\ UNCHANGED sqlite_sequence
         ELSE LET id == sqlite_sequence.users + 1 IN
              /\ users' = Put(users, id,
                              NewUser(auth[r].username, auth[r].email,
                                      auth[r].passwordHash, now))
              /\ sqlite_sequence' = [sqlite_sequence EXCEPT !.users = id]
              /\ auth' = [auth EXCEPT ![r] = AuthIdle]
              /\ response' = Response("POST /api/auth/register", id, 201, "")

\* ---------------------------------------------- POST /api/auth/login
\* Key of the first constraint of loginSchema the body violates.
loginSchemaError(email, password) ==
    IF ~IsEmail(email) THEN "email" ELSE "password"

\* Handler up to the `await database.findUserByEmail(email)`.
Login(r, email, password) ==
    /\ auth[r].pc = "idle"
    /\ IF loginSchema(email, password)
         THEN /\ auth' = [auth EXCEPT ![r] = [AuthIdle EXCEPT
                             !.pc = "loginFindUser", !.email = email,
                             !.password = password]]
              /\ response' = NoResponse
         ELSE /\ response' = Response("POST /api/auth/login", 0, 400,
                                      loginSchemaError(email, password))
              /\ UNCHANGED auth
    /\ UNCHANGED users

\* loginFindUser telling the caller that no user has the e-mail.
loginFindUserRevealing(r, err) ==
    /\ auth[r].pc = "loginFindUser"
    /\ IF err THEN AuthRejected(r, "POST /api/auth/login", "Login failed")
       ELSE LET user == findUserByEmail(auth[r].email) IN
            /\ IF user = NULL
                 THEN /\ auth' = [auth EXCEPT ![r] = AuthIdle]
                      /\ response' = Response("POST /api/auth/login", 0, 404,
                                              "User not found")
                 ELSE /\ auth' = [auth EXCEPT
                             ![r].pc = "comparePassword",
                             ![r].userId = user[1],
                             ![r].passwordHash = users[user[1]].password_hash]
                      /\ response' = NoResponse
            /\ UNCHANGED users

\* findUserByEmail resolves: 401 when no user has the e-mail, else the
\* handler keeps the row and goes on to bcrypt.compare.
loginFindUser(r, err) ==
    /\ auth[r].pc = "loginFindUser"
    /\ IF err THEN AuthRejected(r, "POST /api/auth/login", "Login failed")
       ELSE LET user == findUserByEmail(auth[r].email) IN
            /\ IF user = NULL
                 THEN /\ auth' = [auth EXCEPT ![r] = AuthIdle]
                      /\ response' = Response("POST /api/auth/login", 0, 401,
                                              "Invalid credentials")
                 ELSE /\ auth' = [auth EXCEPT
                             ![r].pc = "comparePassword",
                             ![r].userId = user[1],
                             ![r].passwordHash = users[user[1]].password_hash]
                      /\ response' = NoResponse
            /\ UNCHANGED users

\* bcrypt.compare resolves: 401 on a mismatch, else on to the UPDATE.
comparePassword(r) ==
    /\ auth[r].pc = "comparePassword"
    /\ IF Hash(auth[r].password) = auth[r].passwordHash
         THEN /\ auth' = [auth EXCEPT ![r].pc = "updateLastLogin"]
              /\ response' = NoResponse
         ELSE /\ auth' = [auth EXCEPT ![r] = AuthIdle]
              /\ response' = Response("POST /api/auth/login", 0, 401,
                                      "Invalid credentials")
    /\ UNCHANGED users

\* TRIGGER update_users_timestamp (AFTER UPDATE, for the row updated).
update_users_timestamp(old, new, now) ==
    IF new.updated_at = old.updated_at
      THEN [new EXCEPT !.updated_at = now]
      ELSE new

\* UPDATE users SET last_login = CURRENT_TIMESTAMP WHERE id = ? resolves,
\* followed by the trigger; the handler signs a token and answers 200.
updateLastLogin(r, now, err) ==
    /\ auth[r].pc = "updateLastLogin"
    /\ IF err THEN AuthRejected(r, "POST /api/auth/login", "Login failed")
       ELSE /\ users' =
                 IF auth[r].userId \in DOMAIN users
                   THEN [users EXCEPT ![auth[r].userId] =
                           update_users_timestamp(@, [@ EXCEPT !.last_login = Some(now)], now)]
                   ELSE users
            /\ auth' = [auth EXCEPT ![r] = AuthIdle]
            /\ response' = Response("POST /api/auth/login", auth[r].userId, 200, "")

\* --------------------------------------------- POST /api/auth/verify
\* Handler up to the `await database.get('SELECT ... FROM users ...')`:
\* 401 without a token or when jwt.verify throws (synchronously).
Verify(r, token) ==
    /\ auth[r].pc = "idle"
    /\ IF token = NULL
         THEN /\ response' = Response("POST /api/auth/verify", 0, 401,
                                      "No token provided")
              /\ UNCHANGED auth
         ELSE IF token[1].kind = "expired"
           THEN /\ response' = Response("POST /api/auth/verify", 0, 401,
                                        "Token expired")
                /\ UNCHANGED auth
           ELSE IF token[1].kind # "valid"
             THEN /\ response' = Response("POST /api/auth/verify", 0, 401,
                                          "Invalid token")
                  /\ UNCHANGED auth
             ELSE /\ auth' = [auth EXCEPT ![r] = [AuthIdle EXCEPT
                                 !.pc = "verifyFindUser",
                                 !.userId = token[1].userId]]
                  /\ response' = NoResponse
    /\ UNCHANGED users

\* SELECT ... FROM users WHERE id = ? AND is_active = 1: is there a row.
ActiveUser(userId) ==
    userId \in DOMAIN users /\ users[userId].is_active = 1

\* verifyFindUser without the `if (!user)` return.
verifyFindUserUnchecked(r, err) ==
    /\ auth[r].pc = "verifyFindUser"
    /\ auth' = [auth EXCEPT ![r] = AuthIdle]
    /\ response' =
         IF err THEN Response("POST /api/auth/verify", 0, 401, "Invalid token")
         ELSE Response("POST /api/auth/verify", auth[r].userId, 200, "")
    /\ UNCHANGED users

\* verifyFindUser also recording the time of the verification.
verifyFindUserTouching(r, err) ==
    /\ auth[r].pc = "verifyFindUser"
    /\ auth' = [auth EXCEPT ![r] = AuthIdle]
    /\ response' =
         IF err THEN Response("POST /api/auth/verify", 0, 401, "Invalid token")
         ELSE IF ~ActiveUser(auth[r].userId)
           THEN Response("POST /api/auth/verify", 0, 401, "User not found")
           ELSE Response("POST /api/auth/verify", auth[r].userId, 200, "")
    /\ users' = IF ~err /\ ActiveUser(auth[r].userId)
                  THEN [users EXCEPT ![auth[r].userId].last_login = Some(1)]
                  ELSE users

\* The SELECT resolves: a rejected query lands in the catch (401 'Invalid
\* token'), no row is 401, else 200 with the user.
verifyFindUser(r, err) ==
    /\ auth[r].pc = "verifyFindUser"
    /\ auth' = [auth EXCEPT ![r] = AuthIdle]
    /\ response' =
         IF err THEN Response("POST /api/auth/verify", 0, 401, "Invalid token")
         ELSE IF ~ActiveUser(auth[r].userId)
           THEN Response("POST /api/auth/verify", 0, 401, "User not found")
           ELSE Response("POST /api/auth/verify", auth[r].userId, 200, "")
    /\ UNCHANGED users

\* ------------------------------------------------------ specifications
\* errs: the outcomes of a query a specification lets happen (TRUE: the
\* statement is rejected); the other parameters are the inputs it draws.
SessionSteps(times, errs) ==
    \E n \in SessionNameInputs, t \in times, err \in errs :
      PostSession(n, t, err) /\ UNCHANGED <<users, auth, page, app>>

RecordSteps(r, emotionTypes, errs) ==
    \/ \E s \in SessionIds, e \in emotionTypes, c \in ConfidenceInputs :
         PostEmotion(r, s, e, c) /\ UNCHANGED <<users, auth, page, app>>
    \/ \E err \in errs : verifySession(r, err) /\ UNCHANGED <<users, auth, page, app>>
    \/ \E err \in errs : createEmotion(r, err) /\ UNCHANGED <<users, auth, page, app>>
    \/ \E err \in errs :
         incrementDetections(r, err) /\ UNCHANGED <<users, auth, page, app>>

RemoveSteps(r, errs) ==
    \/ \E e \in EmotionIds : DeleteEmotion(r, e) /\ UNCHANGED <<users, auth, page, app>>
    \/ \E err \in errs : checkEmotion(r, err) /\ UNCHANGED <<users, auth, page, app>>
    \/ \E err \in errs : deleteEmotionRow(r, err) /\ UNCHANGED <<users, auth, page, app>>
    \/ \E err \in errs :
         decrementDetections(r, err) /\ UNCHANGED <<users, auth, page, app>>

CloseSteps(endTimes, durations, totals, accuracies, errs) ==
    \E s \in SessionIds, e \in endTimes, d \in durations, t \in totals,
       a \in accuracies, err \in errs :
      PutSessionEnd(s, e, d, t, a, err) /\ UNCHANGED <<users, auth, page, app>>

RegisterSteps(r, usernames, emails, passwords, times, errs) ==
    \/ \E u \in usernames, e \in emails, p \in passwords :
         Register(r, u, e, p) /\ UNCHANGED <<sessions, emotions, req, page, app>>
    \/ \E err \in errs :
         checkEmail(r, err) /\ UNCHANGED <<sessions, emotions, req, page, app>>
    \/ \E err \in errs :
         checkUsername(r, err) /\ UNCHANGED <<sessions, emotions, req, page, app>>
    \/ hashPassword(r) /\ UNCHANGED <<sessions, emotions, req, page, app>>
    \/ \E t \in times, err \in errs :
         createUser(r, t, err) /\ UNCHANGED <<sessions, emotions, req, page, app>>

LoginSteps(r, emails, passwords, times, errs) ==
    \/ \E e \in emails, p \in passwords :
         Login(r, e, p) /\ UNCHANGED <<db, req, page, app>>
    \/ \E err \in errs : loginFindUser(r, err) /\ UNCHANGED <<db, req, page, app>>
    \/ comparePassword(r) /\ UNCHANGED <<db, req, page, app>>
    \/ \E t \in times, err \in errs :
         updateLastLogin(r, t, err) /\ UNCHANGED <<db, req, page, app>>

VerifySteps(r, tokens, errs) ==
    \/ \E t \in tokens : Verify(r, t) /\ UNCHANGED <<db, req, page, app>>
    \/ \E err \in errs : verifyFindUser(r, err) /\ UNCHANGED <<db, req, page, app>>

DeleteSessionSteps(errs) ==
    \E s \in SessionIds, err \in errs :
      DeleteSession(s, err) /\ UNCHANGED <<users, auth, page, app>>

GetSessionSteps(errs) ==
    \E s \in SessionIds, err \in errs :
      GetSession(s, err) /\ UNCHANGED <<users, auth, page, app>>

ListingSteps(errs) ==
    \/ \E s \in SessionIds, l \in LimitInputs, o \in OffsetInputs, err \in errs :
         GetEmotionsBySession(s, l, o, err) /\ UNCHANGED <<users, auth, app>>
    \/ \E u \in UserIds, l \in LimitInputs, o \in OffsetInputs, err \in errs :
         GetEmotionsByUser(u, l, o, err) /\ UNCHANGED <<users, auth, app>>
    \/ \E u \in UserIds, l \in LimitInputs, o \in OffsetInputs, err \in errs :
         GetSessionsByUser(u, l, o, err) /\ UNCHANGED <<users, auth, app>>
    \/ \E l \in LimitInputs, err \in errs :
         GetRealtime(l, err) /\ UNCHANGED <<users, auth, app>>

AppSteps ==
    \/ \E c \in StartCalls : startDetection(c) /\ UNCHANGED server
    \/ \E c \in StartCalls, loaded \in LoadedInputs, network \in BOOLEAN :
         loadModels(c, loaded, network) /\ UNCHANGED server
    \/ \E c \in StartCalls, granted \in BOOLEAN :
         getUserMedia(c, granted) /\ UNCHANGED server
    \/ onloadedmetadata /\ UNCHANGED server
    \/ stopDetection /\ UNCHANGED server
    \/ \E faces \in BOOLEAN : detectAllFaces(faces) /\ UNCHANGED server
    \/ detectEmotions /\ UNCHANGED server

UpdateSteps(errs) ==
    \E s \in SessionIds, n \in UpdateNameInputs, err \in errs :
      PutSession(s, n, err) /\ UNCHANGED <<users, auth, page, app>>

\* Every handler, every input, every outcome of a query.
Next ==
    \/ SessionSteps(Times, BOOLEAN)
    \/ CloseSteps(EndTimeInputs, DurationInputs, TotalDetectionsInputs,
                  AccuracyInputs, BOOLEAN)
    \/ UpdateSteps(BOOLEAN)
    \/ DeleteSessionSteps(BOOLEAN)
    \/ GetSessionSteps(BOOLEAN)
    \/ ListingSteps(BOOLEAN)
    \/ AppSteps
    \/ \E r \in Requests :
         \/ RecordSteps(r, EmotionTypeInputs, BOOLEAN)
         \/ RemoveSteps(r, BOOLEAN)
         \/ RegisterSteps(r, UsernameInputs, EmailInputs, PasswordInputs,
                          Times, BOOLEAN)
         \/ LoginSteps(r, EmailInputs, PasswordInputs, Times, BOOLEAN)
         \/ VerifySteps(r, TokenInputs, BOOLEAN)

Spec == Init /\ [][Next]_vars

\* The session aggregator alone, the store answering every query:
\* sessions are created, observations recorded and removed.
NextAggregator ==
    \/ SessionSteps({1}, {FALSE})
    \/ \E r \in Requests :
         \/ RecordSteps(r, EmotionTypeInputs, {FALSE})
         \/ RemoveSteps(r, {FALSE})

SpecAggregator == Init /\ [][NextAggregator]_vars

\* recordObservation alone, queries may be rejected.
NextRecord ==
    \/ SessionSteps({1}, {FALSE})
    \/ \E r \in Requests : RecordSteps(r, EmotionTypeInputs, BOOLEAN)

SpecRecord == Init /\ [][NextRecord]_vars

\* recordObservation and removeObservation of observations of one label,
\* queries may be rejected.
NextRemove ==
    \/ SessionSteps({1}, {FALSE})
    \/ \E r \in Requests :
         \/ RecordSteps(r, {"happy", "bored"}, {FALSE})
         \/ RemoveSteps(r, BOOLEAN)

SpecRemove == Init /\ [][NextRemove]_vars

\* The counter under recordObservation, removeObservation and
\* closeSession with a client-supplied totalDetections, the store
\* answering every query.
NextCounters ==
    \/ SessionSteps({1}, {FALSE})
    \/ CloseSteps({Some(1)}, {NULL}, {Some(0), Some(3)}, {NULL}, {FALSE})
    \/ \E r \in Requests :
         \/ RecordSteps(r, {"happy"}, {FALSE})
         \/ RemoveSteps(r, {FALSE})

SpecCounters == Init /\ [][NextCounters]_vars

\* Sessions alone: created, renamed and closed.
NextSessions ==
    \/ SessionSteps(Times, BOOLEAN)
    \/ CloseSteps(EndTimeInputs, DurationInputs, TotalDetectionsInputs,
                  AccuracyInputs, BOOLEAN)
    \/ UpdateSteps(BOOLEAN)

SpecSessions == Init /\ [][NextSessions]_vars

\* closeSession with totalDetections and accuracy supplied, on sessions
\* that hold observations; the UPDATE may be rejected.
NextClose ==
    \/ SessionSteps({1}, {FALSE})
    \/ CloseSteps({Some(2)}, {NULL}, {Some(3)}, AccuracyInputs \ {NULL},
                  BOOLEAN)
    \/ \E r \in Requests : RecordSteps(r, {"happy"}, {FALSE})

SpecClose == Init /\ [][NextClose]_vars

\* recordObservation of two labels and two confidences, the store
\* answering every query: the table the summary is read from.
NextSummary ==
    \/ SessionSteps({1}, {FALSE})
    \/ \E r \in Requests :
         \/ \E s \in SessionIds, e \in {"happy", "sad"},
               c \in SummaryConfidenceInputs :
              PostEmotion(r, s, e, c) /\ UNCHANGED <<users, auth, page, app>>
         \/ verifySession(r, FALSE) /\ UNCHANGED <<users, auth, page, app>>
         \/ createEmotion(r, FALSE) /\ UNCHANGED <<users, auth, page, app>>
         \/ incrementDetections(r, FALSE) /\ UNCHANGED <<users, auth, page, app>>

SpecSummary == Init /\ [][NextSummary]_vars

\* register alone, queries may be rejected.
NextRegister ==
    \E r \in Requests :
      RegisterSteps(r, UsernameInputs, EmailInputs, {"pw", "secret1"}, {1},
                    BOOLEAN)

SpecRegister == Init /\ [][NextRegister]_vars

\* Concurrent register calls, the store answering every query.
NextRegisterRace ==
    \E r \in Requests :
      RegisterSteps(r, UsernameInputs, EmailInputs, {"secret1"}, {1}, {FALSE})

SpecRegisterRace == Init /\ [][NextRegisterRace]_vars

\* login against the users one register body creates, queries may be
\* rejected.
NextLogin ==
    \E r \in Requests :
      \/ RegisterSteps(r, {"alice"}, {"a@x.io"}, {"secret1"}, {1}, {FALSE})
      \/ LoginSteps(r, EmailInputs, {"secret1", "hunter2"}, Times, BOOLEAN)

SpecLogin == Init /\ [][NextLogin]_vars

\* verify against the users two register bodies create, queries may be
\* rejected.
NextVerify ==
    \E r \in Requests :
      \/ RegisterSteps(r, {"alice", "bob"}, {"a@x.io", "b@x.io"}, {"secret1"},
                       {1}, {FALSE})
      \/ VerifySteps(r, TokenInputs, BOOLEAN)

SpecVerify == Init /\ [][NextVerify]_vars

\* Sessions created and deleted while observations are recorded.
NextCascade ==
    \/ SessionSteps({1}, {FALSE})
    \/ DeleteSessionSteps(BOOLEAN)
    \/ \E r \in Requests : RecordSteps(r, {"happy"}, {FALSE})

SpecCascade == Init /\ [][NextCascade]_vars

\* Handlers of the three routers whose queries may be rejected: sessions
\* created and read, observations recorded, tokens verified.
NextFailure ==
    \/ SessionSteps({1}, BOOLEAN)
    \/ GetSessionSteps(BOOLEAN)
    \/ \E r \in Requests :
         \/ RecordSteps(r, {"happy"}, BOOLEAN)
         \/ VerifySteps(r, {NULL, Some(Token("valid", 1))}, BOOLEAN)

SpecFailure == Init /\ [][NextFailure]_vars

\* The listing routes with every limit and offset, beside sessions.
NextListing ==
    \/ SessionSteps({1}, {FALSE})
    \/ ListingSteps(BOOLEAN)

SpecListing == Init /\ [][NextListing]_vars

\* The front end alone.
SpecApp == Init /\ [][AppSteps]_vars

\* --------------------------------------------------------------- claims
AllIdle == \A r \in Requests : req[r].pc = "idle"

\* The step answers request r, which was at position pc, or moves it on.
Leaves(r, pc) == req[r].pc = pc /\ req'[r].pc # pc

\* C1: once every recordObservation / removeObservation call has
\* completed, the counts of summarize(sessionId) add up to the session's
\* total_detections, for every session.
SummaryCountsMatchTotal ==
    AllIdle =>
      \A s \in DOMAIN sessions : \A rows \in getEmotionSummary(s) :
        Some(SumCounts(rows)) = sessions[s].total_detections

\* C2: recordObservation is atomic: in every state, every session has as
\* many observation rows as its total_detections says (no row present
\* with the counter not yet incremented for it, nor the reverse).
RecordObservationAtomic ==
    \A s \in DOMAIN sessions :
      Some(Cardinality(EmotionsOf(emotions, s))) = sessions[s].total_detections

\* C3: in every reachable state every session's total_detections is
\* greater than or equal to 0.
TotalDetectionsNonNegative ==
    \A s \in DOMAIN sessions :
      /\ sessions[s].total_detections # NULL
      /\ sessions[s].total_detections[1] >= 0

\* C4: no update is lost: in every step the total_detections of a session
\* grows by 1 if the step completes a recordObservation of that session
\* with success (201) and stays as it is otherwise, however the calls
\* interleave; so n successful calls add exactly n.
NoLostUpdate ==
    [][\A s \in DOMAIN sessions :
         sessions'[s].total_detections =
           SqlAdd(sessions[s].total_detections,
                  IF response' = Response("POST /api/emotions", s, 201, "")
                    THEN 1 ELSE 0)]_vars

\* Two calls for one session interleave: one has completed and is counted,
\* the other has inserted its row and not yet updated the counter.
NoLostUpdateWitness ==
    /\ response.route = "POST /api/emotions" /\ response.status = 201
    /\ response.id \in DOMAIN sessions
    /\ sessions[response.id].total_detections = Some(1)
    /\ \E r \in Requests : /\ req[r].pc = "incrementDetections"
                           /\ req[r].sessionId = response.id

\* C5: a recordObservation whose well-formed payload names no existing
\* session when its lookup resolves is answered 404 (500 when the lookup
\* itself is rejected), never 201, and the step leaves every table as it
\* was.
RecordMissingSessionNotFound ==
    [][\A r \in Requests :
         (Leaves(r, "verifySession") /\ req[r].sessionId \notin DOMAIN sessions)
           => /\ req'[r] = Idle
              /\ response'.status # 500
                   => response' = Response("POST /api/emotions",
                                           req[r].sessionId, 404, "")
              /\ response'.status = 500
                   => response' = Response("POST /api/emotions",
                                           req[r].sessionId, 500, "")
              /\ UNCHANGED db]_vars

\* A 404 for a session that does not exist, beside one that does.
RecordMissingSessionWitness ==
    /\ response.route = "POST /api/emotions" /\ response.status = 404
    /\ response.id \notin DOMAIN sessions
    /\ sessions # << >>

\* C6: every stored observation, and every payload a handler works on,
\* has a confidence in [0,1] and a label of the enum as the client sent
\* them; a 400 of POST /api/emotions names the violated key and leaves
\* every table and every running handler as they were.
StoredObservationsValid ==
    /\ [](/\ \A e \in DOMAIN emotions :
               /\ emotions[e].emotion_type \in EmotionTypes
               /\ emotions[e].confidence_score \in ConfidenceInputs
               /\ emotions[e].confidence_score >= 0
               /\ emotions[e].confidence_score <= 100
          /\ \A r \in Requests :
               req[r].pc \in {"verifySession", "createEmotion", "incrementDetections"}
                 => /\ req[r].emotionType \in EmotionTypes
                    /\ req[r].confidenceScore \in ConfidenceInputs
                    /\ req[r].confidenceScore >= 0
                    /\ req[r].confidenceScore <= 100)
    /\ [][(response'.route = "POST /api/emotions" /\ response'.status = 400)
            => /\ response'.error \in {"emotionType", "confidenceScore"}
               /\ UNCHANGED <<db, req, page, app>>]_vars

\* A confidence of 1.5 was answered 400 while an observation is stored.
StoredObservationsValidWitness ==
    /\ response = Response("POST /api/emotions", 1, 400, "confidenceScore")
    /\ emotions # << >>

\* C7: a removeObservation whose id names no stored observation when its
\* lookup resolves is answered 404 (500 when the lookup itself is
\* rejected) and the step leaves every table as it was.
RemoveMissingNotFound ==
    [][\A r \in Requests :
         (Leaves(r, "checkEmotion") /\ req[r].emotionId \notin DOMAIN emotions)
           => /\ req'[r] = Idle
              /\ response'.status # 500
                   => response' = Response("DELETE /api/emotions/:id",
                                           req[r].emotionId, 404, "")
              /\ response'.status = 500
                   => response' = Response("DELETE /api/emotions/:id",
                                           req[r].emotionId, 500, "")
              /\ UNCHANGED db]_vars

\* A 404 for an id that names no observation, beside a stored one.
RemoveMissingWitness ==
    /\ response.route = "DELETE /api/emotions/:id" /\ response.status = 404
    /\ response.id \notin DOMAIN emotions
    /\ emotions # << >>
    /\ \E s \in DOMAIN sessions : sessions[s].total_detections = Some(1)

\* Count of the summary row of a label (0: no such row).
SummaryCount(table, sessionId, emotionType) ==
    Cardinality({e \in EmotionsOf(table, sessionId) :
                   table[e].emotion_type = emotionType})

\* C8: a removeObservation that is answered 200 has removed exactly the
\* observation it looked up (its DELETE finds the row and takes the
\* summary count of its label down by 1), and its UPDATE takes the
\* total_detections of the owning session down by exactly 1 and changes
\* no other session.
RemoveRemovesExactlyOne ==
    [][\A r \in Requests :
         /\ (Leaves(r, "deleteEmotionRow") /\ req'[r].pc = "decrementDetections")
              => /\ req[r].emotionId \in DOMAIN emotions
                 /\ emotions' = Drop(emotions, req[r].emotionId)
                 /\ \A s \in SessionIds, t \in EmotionTypes :
                      SummaryCount(emotions', s, t) =
                        SummaryCount(emotions, s, t)
                          - (IF /\ s = emotions[req[r].emotionId].session_id
                                /\ t = emotions[req[r].emotionId].emotion_type
                               THEN 1 ELSE 0)
         /\ (Leaves(r, "decrementDetections") /\ response'.status = 200)
              => /\ req[r].session_id \in DOMAIN sessions
                 /\ sessions[req[r].session_id].total_detections # NULL
                 /\ sessions' = [sessions EXCEPT
                      ![req[r].session_id].total_detections = Some(@[1] - 1)]]_vars

\* C9: closeSession on a session id that does not exist is not reported
\* as a success: its answer is 404 (500 when the UPDATE is rejected).
CloseMissingNotFound ==
    (response.route = "PUT /api/sessions/:id/end" /\ response.id \notin DOMAIN sessions)
      => response.status \in {404, 500}

\* C10: a closeSession with an endTime earlier than start_time is never
\* applied, so no session has an end_time before its start_time or a
\* negative duration_seconds.
NoNegativeDuration ==
    \A s \in DOMAIN sessions :
      /\ sessions[s].end_time # NULL
           => sessions[s].end_time[1] >= sessions[s].start_time[1]
      /\ sessions[s].duration_seconds # NULL
           => sessions[s].duration_seconds[1] >= 0

\* C11: duration_seconds is set at most once: once a session is closed
\* with duration_seconds = end_time - start_time, no step changes its
\* duration_seconds or leaves it different from the stored
\* end_time - start_time.
DurationSetOnce ==
    [][\A s \in DOMAIN sessions :
         (/\ sessions[s].end_time # NULL
          /\ sessions[s].duration_seconds =
                Some(sessions[s].end_time[1] - sessions[s].start_time[1]))
           => /\ sessions'[s].duration_seconds = sessions[s].duration_seconds
              /\ sessions'[s].end_time # NULL
                   => sessions'[s].duration_seconds =
                        Some(sessions'[s].end_time[1] - sessions'[s].start_time[1])]_vars

\* C12: the open-to-closed transition is one-way: no step takes a session
\* whose end_time is non-null to a null end_time.
ClosedNeverReopened ==
    [][\A s \in DOMAIN sessions :
         (sessions[s].end_time # NULL /\ s \in DOMAIN sessions')
           => sessions'[s].end_time # NULL]_vars

\* C13: a closeSession answered 200 on an existing session leaves its
\* is_completed set, and a set is_completed stays set.
CloseMarksCompleted ==
    /\ []((/\ response.route = "PUT /api/sessions/:id/end"
            /\ response.status = 200
            /\ response.id \in DOMAIN sessions)
             => sessions[response.id].is_completed = 1)
    /\ [][\A s \in DOMAIN sessions :
            (sessions[s].is_completed = 1 /\ s \in DOMAIN sessions')
              => sessions'[s].is_completed = 1]_vars

\* C14: a closeSession on an existing session with totalDetections and
\* accuracy supplied, whose UPDATE is not rejected, is answered 200 and
\* leaves the session's total_detections and accuracy_score equal to the
\* supplied values, whatever number of observations the session holds.
CloseStoresSuppliedCounters ==
    [][\A s \in DOMAIN sessions, e \in EndTimeInputs, d \in DurationInputs,
          t \in TotalDetectionsInputs \ {NULL}, a \in AccuracyInputs \ {NULL} :
         PutSessionEnd(s, e, d, t, a, FALSE)
           => /\ sessions'[s].total_detections = t
              /\ sessions'[s].accuracy_score = a
              /\ response' = Response("PUT /api/sessions/:id/end", s, 200, "")]_vars

\* A session closed with totalDetections 3 and accuracy 0.90 while it
\* holds one observation.
CloseStoresSuppliedCountersWitness ==
    /\ response.route = "PUT /api/sessions/:id/end" /\ response.status = 200
    /\ response.id \in DOMAIN sessions
    /\ sessions[response.id].total_detections = Some(3)
    /\ sessions[response.id].accuracy_score = Some(90)
    /\ sessions[response.id].end_time # NULL
    /\ Cardinality(EmotionsOf(emotions, response.id)) = 1

\* The labels of the enum in ascending alphabetical order.
EmotionTypeOrder ==
    <<"angry", "disgusted", "fearful", "happy", "neutral", "sad", "surprised">>

LabelRank(t) == CHOOSE i \in DOMAIN EmotionTypeOrder : EmotionTypeOrder[i] = t

\* C15: summarize(sessionId) has one possible result, its rows ordered by
\* count descending and, among rows of equal count, by label ascending.
SummaryOrderDeterministic ==
    \A s \in DOMAIN sessions :
      /\ Cardinality(getEmotionSummary(s)) = 1
      /\ \A rows \in getEmotionSummary(s) :
           \A i, j \in DOMAIN rows :
             i < j => \/ rows[i].count > rows[j].count
                      \/ /\ rows[i].count = rows[j].count
                         /\ LabelRank(rows[i].emotion_type)
                              < LabelRank(rows[j].emotion_type)

\* Ids of the rows of a table of emotions of one session and one label.
StoredOf(table, sessionId, emotionType) ==
    {e \in EmotionsOf(table, sessionId) : table[e].emotion_type = emotionType}

\* The row of a label in a summary result is the count and the mean of
\* the stored observations of that label (no row when there are none).
ReflectsStored(rows, table, sessionId, emotionType) ==
    LET stored == StoredOf(table, sessionId, emotionType)
        at == {i \in DOMAIN rows : rows[i].emotion_type = emotionType}
    IN IF stored = {} THEN at = {}
       ELSE /\ Cardinality(at) = 1
            /\ \A i \in at :
                 /\ rows[i].count = Cardinality(stored)
                 /\ rows[i].avg_confidence =
                      <<SumConfidence(table, stored), Cardinality(stored)>>

AuthLeaves(r, pc) == auth[r].pc = pc /\ auth'[r].pc # pc

EmailTaken(email) == \E u \in DOMAIN users : users[u].email = email

UsernameTaken(username) == \E u \in DOMAIN users : users[u].username = username

\* C17: a register whose e-mail belongs to a stored user when its e-mail
\* lookup resolves is answered 409 with the e-mail message, whether or not
\* its username is taken too; one whose username belongs to a stored user
\* when its username lookup resolves is answered 409 with the username
\* message, and only a call past the e-mail lookup gets that answer (500
\* when the lookup itself is rejected).  Neither step creates a user.
RegisterConflict ==
    [][/\ \A r \in Requests :
            /\ (AuthLeaves(r, "checkEmail") /\ EmailTaken(auth[r].email))
                 => /\ auth'[r] = AuthIdle
                    /\ response'.status # 500
                         => response' = Response("POST /api/auth/register", 0, 409,
                                                 "User already exists with this email")
                    /\ response'.status = 500
                         => response' = Response("POST /api/auth/register", 0, 500,
                                                 "Registration failed")
                    /\ UNCHANGED <<users, sqlite_sequence>>
            /\ (AuthLeaves(r, "checkUsername") /\ UsernameTaken(auth[r].username))
                 => /\ auth'[r] = AuthIdle
                    /\ response'.status # 500
                         => response' = Response("POST /api/auth/register", 0, 409,
                                                 "Username already taken")
                    /\ response'.status = 500
                         => response' = Response("POST /api/auth/register", 0, 500,
                                                 "Registration failed")
                    /\ UNCHANGED <<users, sqlite_sequence>>
       /\ response' = Response("POST /api/auth/register", 0, 409,
                               "Username already taken")
            => \E r \in Requests : AuthLeaves(r, "checkUsername")
       /\ response'.status = 409 => UNCHANGED <<users, sqlite_sequence>>]_vars

\* An e-mail Conflict has been answered, and a call whose e-mail and
\* username both belong to a stored user awaits its e-mail lookup.
RegisterConflictWitness ==
    /\ response = Response("POST /api/auth/register", 0, 409,
                           "User already exists with this email")
    /\ \E r \in Requests :
         /\ auth[r].pc = "checkEmail"
         /\ \E u \in DOMAIN users : /\ users[u].email = auth[r].email
                                     /\ users[u].username = auth[r].username

\* C18: no two users share an e-mail or a username, and a register call
\* that reaches its INSERT when its e-mail or username has been taken by a
\* concurrent call ends with Conflict (409).
UniqueUsersUnderRace ==
    /\ [](\A u, v \in DOMAIN users :
            u # v => /\ users[u].email # users[v].email
                     /\ users[u].username # users[v].username)
    /\ [][\A r \in Requests :
            (/\ AuthLeaves(r, "createUser")
             /\ EmailTaken(auth[r].email) \/ UsernameTaken(auth[r].username))
              => /\ response'.status = 409
                 /\ UNCHANGED users]_vars

\* C19: a login with a well-formed body is answered by the same response,
\* 401 'Invalid credentials', when no user has the e-mail as when the
\* user exists and the password does not match; every 401 of login is
\* that response, and the step changes no stored user.
LoginFailureUniform ==
    [][/\ \A r \in Requests :
            /\ (/\ AuthLeaves(r, "loginFindUser")
                /\ findUserByEmail(auth[r].email) = NULL
                /\ response'.status # 500)
                 => /\ response' = Response("POST /api/auth/login", 0, 401,
                                            "Invalid credentials")
                    /\ auth'[r] = AuthIdle
                    /\ UNCHANGED users
            /\ (/\ AuthLeaves(r, "comparePassword")
                /\ Hash(auth[r].password) # users[auth[r].userId].password_hash)
                 => /\ response' = Response("POST /api/auth/login", 0, 401,
                                            "Invalid credentials")
                    /\ auth'[r] = AuthIdle
                    /\ UNCHANGED users
       /\ (response'.route = "POST /api/auth/login" /\ response'.status = 401)
            => /\ response' = Response("POST /api/auth/login", 0, 401,
                                       "Invalid credentials")
               /\ UNCHANGED users]_vars

\* A login has been answered 401 'Invalid credentials' while another,
\* with the wrong password for a stored user, awaits bcrypt.compare.
LoginFailureUniformWitness ==
    /\ response = Response("POST /api/auth/login", 0, 401, "Invalid credentials")
    /\ \E r \in Requests :
         /\ auth[r].pc = "comparePassword"
         /\ auth[r].userId \in DOMAIN users
         /\ Hash(auth[r].password) # users[auth[r].userId].password_hash

\* C20: verify answers 401 when the token is missing, malformed, expired
\* or signed with another key, and when the valid token's user is not a
\* stored active user; it answers 200, with that user, only for a valid
\* token naming a stored active user.
VerifyUnauthorized ==
    [][/\ \A r \in Requests, t \in TokenInputs :
            (Verify(r, t) /\ (t = NULL \/ t[1].kind # "valid"))
              => /\ response'.route = "POST /api/auth/verify"
                 /\ response'.status = 401
                 /\ UNCHANGED auth
       /\ \A r \in Requests :
            AuthLeaves(r, "verifyFindUser")
              => /\ response'.route = "POST /api/auth/verify"
                 /\ response'.status \in {200, 401}
                 /\ ~ActiveUser(auth[r].userId) => response'.status = 401
                 /\ response'.status = 200 => response'.id = auth[r].userId
       /\ (response'.route = "POST /api/auth/verify" /\ response'.status # 401)
            => /\ response'.status = 200
               /\ ActiveUser(response'.id)
               /\ \E r \in Requests : AuthLeaves(r, "verifyFindUser")]_vars

\* A valid token naming no stored user was answered 401 while a user is
\* stored.
VerifyUnauthorizedWitness ==
    /\ response = Response("POST /api/auth/verify", 0, 401, "User not found")
    /\ users # << >>

\* C21: verify changes no stored state, and the answer to a valid token
\* whose query is not rejected is determined by the token and the stored
\* users alone: a call answered 200 leaves every other call with the same
\* token, with no write in between, to be answered 200 with the same user.
VerifyIdempotent ==
    [][/\ \A r \in Requests, t \in TokenInputs :
            Verify(r, t) => UNCHANGED <<db, users>>
       /\ \A r \in Requests :
            AuthLeaves(r, "verifyFindUser")
              => /\ UNCHANGED <<db, users>>
                 /\ response'.status = 200
                      => /\ response' = Response("POST /api/auth/verify",
                                                 auth[r].userId, 200, "")
                         /\ \A q \in Requests :
                              (/\ auth'[q].pc = "verifyFindUser"
                               /\ auth'[q].userId = auth[r].userId)
                                => /\ auth'[q].userId \in DOMAIN users'
                                   /\ users'[auth'[q].userId].is_active = 1]_vars

\* A verify was answered 200 with user 1 while a second call with the same
\* token awaits its lookup.
VerifyIdempotentWitness ==
    /\ response = Response("POST /api/auth/verify", 1, 200, "")
    /\ \E q \in Requests : /\ auth[q].pc = "verifyFindUser"
                           /\ auth[q].userId = 1

\* Routes that create, read, update or delete sessions and observations.
EntityRoutes ==
    {"POST /api/sessions", "PUT /api/sessions/:id", "PUT /api/sessions/:id/end",
     "POST /api/emotions", "DELETE /api/emotions/:id"}

\* C22: the entities are gated by the access layer: while no user is
\* stored (so no token that verifies has been issued to any caller) no
\* session and no observation exists and no request on an entity route is
\* answered with a success.
AccessLayerGatesEntities ==
    users = << >>
      => /\ sessions = << >>
         /\ emotions = << >>
         /\ ~(response.route \in EntityRoutes /\ response.status \in {200, 201})

\* C23: every stored observation references an existing session: its
\* session_id is the id of a row of sessions, in every state.
ObservationsReferenceSessions ==
    \A e \in DOMAIN emotions : emotions[e].session_id \in DOMAIN sessions

\* C24: a step in which the store rejects the handler's query or write is
\* answered 500 (never 404, 401 or a success), with no error key.
StoreFailureIsInternal ==
    [][/\ \A n \in SessionNameInputs, t \in Times :
            (sessionSchema(n) /\ PostSession(n, t, TRUE))
              => (response'.status = 500 /\ response'.error = "")
       /\ \A s \in DOMAIN sessions :
            GetSession(s, TRUE) => (response'.status = 500 /\ response'.error = "")
       /\ \A r \in Requests :
            (\/ verifySession(r, TRUE)
             \/ createEmotion(r, TRUE)
             \/ incrementDetections(r, TRUE)
             \/ verifyFindUser(r, TRUE))
              => (response'.status = 500 /\ response'.error = "")]_vars

\* C25: every listing query is bound with a LIMIT between 0 and 100 (a
\* negative LIMIT returns every row) and an OFFSET that is not negative,
\* whatever limit and offset the caller supplied.
PaginationBounded ==
    page # NoPage
      => /\ page.limit >= 0
         /\ page.limit <= 100
         /\ page.offset >= 0

\* C26: of two concurrent removeObservation calls on the same observation
\* at most one gets past its DELETE to the UPDATE that takes
\* total_detections down by 1 and answers 200 (observation ids are never
\* reused, so equal ids mean the same observation).
RemoveOnceUnderRace ==
    \A r, q \in Requests :
        (/\ r # q
         /\ req[r].pc = "decrementDetections"
         /\ req[q].pc = "decrementDetections")
          => req[r].emotionId # req[q].emotionId

\* C27: a closeSession on an existing session whose UPDATE is not rejected
\* leaves total_detections as stored when totalDetections is omitted and
\* accuracy_score as stored when accuracy is omitted, total_detections
\* stays a number, and no other session is modified.
CloseKeepsOmittedCounters ==
    [][\A s \in DOMAIN sessions, e \in EndTimeInputs, d \in DurationInputs,
          t \in TotalDetectionsInputs, a \in AccuracyInputs :
         PutSessionEnd(s, e, d, t, a, FALSE)
           => /\ t = NULL
                   => sessions'[s].total_detections = sessions[s].total_detections
              /\ a = NULL
                   => sessions'[s].accuracy_score = sessions[s].accuracy_score
              /\ sessions'[s].total_detections # NULL
              /\ \A o \in DOMAIN sessions \ {s} : sessions'[o] = sessions[o]]_vars

\* C28: while detection is on, at most one detectEmotions call is pending
\* (awaiting detectAllFaces or scheduled through requestAnimationFrame),
\* that is at most one loop is live.
SingleDetectionLoop ==
    app.isDetecting => app.awaiting + app.frames <= 1

\* C29: an entry is appended to emotionHistory, or a cleared overlay is
\* drawn on, only while isDetecting is true (never between stopDetection
\* and the next startEmotionDetection).
NoActivityAfterStop ==
    [][(\/ app'.emotionHistory # app.emotionHistory
        \/ (app.overlay = "clear" /\ app'.overlay = "drawn"))
         => app.isDetecting]_vars

\* C30: isDetecting is true, and the camera stream is held, only with
\* modelsLoaded true, and modelsLoaded is true only when one source has
\* supplied the weights of all four nets.
DetectsOnlyWithModels ==
    /\ app.isDetecting => app.modelsLoaded
    /\ app.stream => app.modelsLoaded
    /\ app.modelsLoaded => \E u \in ModelUrls : \A n \in Nets : u \in app.weights[n]

====
